---- MODULE Spec2Model ----
(***************************************************************************)
(* Model of the flow-embeddings package: the incidence matrices B1 and B2  *)
(* of the clique complex of a graph (hodge_laplacian_decomp.py), the       *)
(* Hodge-1 Laplacian assembled from them, and the signed edge-flow vector  *)
(* of a list of directed traversals (edge_flow.py).  The graph is the      *)
(* networkx.Graph the functions receive (built as delaunay.py builds it:   *)
(* nodes first, then edges).                                               *)
(*                                                                         *)
(* Matrices are records [shape |-> <<rows, cols>>, a |-> rows of entries], *)
(* indexed from 0 as numpy indexes them.                                   *)
(***************************************************************************)
EXTENDS Integers, Sequences, FiniteSets

VARIABLES
    G,                    \* the graph passed to the functions
    traversed_edge_list,  \* the traversals passed to get_edge_flow
    inc,                  \* outcome of compute_incidence_matrices_B(G, k_max)
    flow,                 \* outcome of get_edge_flow(G, traversed_edge_list)
    hodge                 \* L1 of compute_hodge_laplacian_decomp(B1, B2)

vars == <<G, traversed_edge_list, inc, flow, hodge>>

----------------------------------------------------------------------------
(* Bounds of the explored inputs. *)

\* nodes / edges of the graphs given to compute_incidence_matrices_B
MaxN == 4
MaxEdges == 5
\* nodes / edges of the graphs and entries of the test vectors of the Laplacian
HodgeMaxN == 3
HodgeMaxEdges == 3
XMax == 1
\* nodes / edges of the graphs and length of the traversal lists of get_edge_flow
FlowMaxN == 2
FlowMaxEdges == 2
MaxTrav == 3

\* the two labelings the package meets: 0-based (delaunay.py) and 1-based
Bases == {0, 1}
\* the k_max arguments tried
KMaxValues == 0..3

\* Python's None, as returned by dict.get on a missing key (indices are >= 0)
None == -1

----------------------------------------------------------------------------
(* Generic helpers: Python's sorted, numpy's indexing and zeros. *)

RECURSIVE InsertInt(_, _)
InsertInt(x, s) ==
    IF s = <<>> THEN <<x>>
    ELSE IF x < Head(s) THEN <<x>> \o s
    ELSE <<Head(s)>> \o InsertInt(x, Tail(s))

\* sorted(...) of a list or tuple of integers
RECURSIVE SortedInts(_)
SortedInts(s) ==
    IF s = <<>> THEN <<>>
    ELSE InsertInt(s[Len(s)], SortedInts(SubSeq(s, 1, Len(s) - 1)))

\* Python's tuple order on pairs
TupleLess(p, q) == p[1] < q[1] \/ (p[1] = q[1] /\ p[2] < q[2])

RECURSIVE InsertTuple(_, _)
InsertTuple(x, s) ==
    IF s = <<>> THEN <<x>>
    ELSE IF TupleLess(x, Head(s)) THEN <<x>> \o s
    ELSE <<Head(s)>> \o InsertTuple(x, Tail(s))

\* sorted(...) of a list of pairs
RECURSIVE SortedTuples(_)
SortedTuples(s) ==
    IF s = <<>> THEN <<>>
    ELSE InsertTuple(s[Len(s)], SortedTuples(SubSeq(s, 1, Len(s) - 1)))

\* np.zeros((r, c), dtype=int)
Zeros(r, c) == [shape |-> <<r, c>>, a |-> [i \in 0..(r - 1) |-> [j \in 0..(c - 1) |-> 0]]]

\* numpy's index normalisation along an axis of length n: negative indices
\* count from the end; None stands for IndexError
NpIndex(i, n) ==
    IF i >= 0 /\ i < n THEN i
    ELSE IF i < 0 /\ i + n >= 0 THEN i + n
    ELSE None

\* A[i, j] = x
SetItem(A, i, j, x) ==
    [A EXCEPT !.a[NpIndex(i, A.shape[1])][NpIndex(j, A.shape[2])] = x]

\* sum over k < n of A[i, k] * B[k, j]
RECURSIVE DotRC(_, _, _, _, _)
DotRC(A, B, i, j, n) ==
    IF n = 0 THEN 0
    ELSE DotRC(A, B, i, j, n - 1) + A.a[i][n - 1] * B.a[n - 1][j]

\* A @ B
MatMul(A, B) ==
    [shape |-> <<A.shape[1], B.shape[2]>>,
     a |-> [i \in 0..(A.shape[1] - 1) |->
              [j \in 0..(B.shape[2] - 1) |-> DotRC(A, B, i, j, A.shape[2])]]]

\* A.T
Transpose(A) ==
    [shape |-> <<A.shape[2], A.shape[1]>>,
     a |-> [i \in 0..(A.shape[2] - 1) |-> [j \in 0..(A.shape[1] - 1) |-> A.a[j][i]]]]

\* A + B
MatAdd(A, B) ==
    [shape |-> A.shape,
     a |-> [i \in 0..(A.shape[1] - 1) |->
              [j \in 0..(A.shape[2] - 1) |-> A.a[i][j] + B.a[i][j]]]]

----------------------------------------------------------------------------
(* The graph: G.nodes is the node order of the container, G.adj the set of *)
(* undirected edges {u, v} (a self-loop is {u}).                           *)

NodeSet(g) == {g.nodes[i] : i \in 1..Len(g.nodes)}

\* G.number_of_nodes()
NumberOfNodes(g) == Len(g.nodes)

\* G.edges(): every edge once, from the node met first in the node order
RECURSIVE EdgeView(_, _, _)
EdgeView(g, i, j) ==
    IF i > Len(g.nodes) THEN <<>>
    ELSE IF j > Len(g.nodes) THEN EdgeView(g, i + 1, i + 1)
    ELSE (IF {g.nodes[i], g.nodes[j]} \in g.adj
          THEN << <<g.nodes[i], g.nodes[j]>> >> ELSE <<>>)
         \o EdgeView(g, i, j + 1)

Edges(g) == EdgeView(g, 1, 1)

\* [tuple(sorted(edge)) for edge in G.edges()]
RECURSIVE NormalizeEdges(_)
NormalizeEdges(es) ==
    IF es = <<>> THEN <<>>
    ELSE <<SortedInts(Head(es))>> \o NormalizeEdges(Tail(es))

\* {edge: idx for idx, edge in enumerate(edge_list)}: a later index overwrites
EdgeToIdx(edge_list) ==
    [e \in {edge_list[k] : k \in 1..Len(edge_list)} |->
        CHOOSE idx \in 0..(Len(edge_list) - 1) :
            /\ edge_list[idx + 1] = e
            /\ \A k \in 0..(Len(edge_list) - 1) : edge_list[k + 1] = e => k <= idx]

\* dict.get(key)
Get(d, key) == IF key \in DOMAIN d THEN d[key] ELSE None

----------------------------------------------------------------------------
(* hodge_laplacian_decomp.py *)

\* variant: the edge list left in the order of G.edges()
IncEdgeListUnsorted(g) == NormalizeEdges(Edges(g))

\* the edge numbering of compute_incidence_matrices_B
IncEdgeList(g) == SortedTuples(NormalizeEdges(Edges(g)))

\* one pass of the B1 loop: column j of edge (u, v)
B1Column(B, u, v, j) == SetItem(SetItem(B, u - 1, j, -1), v - 1, j, 1)

RECURSIVE FillB1(_, _, _)
FillB1(B, edge_list, j) ==
    IF j >= Len(edge_list) THEN B
    ELSE FillB1(B1Column(B, edge_list[j + 1][1], edge_list[j + 1][2], j),
                edge_list, j + 1)

\* B1[u-1, j] or B1[v-1, j] out of range for some edge
B1IndexError(edge_list, N) ==
    \E k \in 1..Len(edge_list) :
        NpIndex(edge_list[k][1] - 1, N) = None \/ NpIndex(edge_list[k][2] - 1, N) = None

\* u and v are joined by an edge and differ
Adjacent(g, u, v) == u # v /\ {u, v} \in g.adj

\* variant: triples in which the last two vertices need not be joined
RECURSIVE Cliques3Open(_, _, _, _)
Cliques3Open(g, i, j, k) ==
    IF i + 2 > Len(g.nodes) THEN <<>>
    ELSE IF j + 1 > Len(g.nodes) THEN Cliques3Open(g, i + 1, i + 2, i + 3)
    ELSE IF k > Len(g.nodes) THEN Cliques3Open(g, i, j + 1, j + 2)
    ELSE (IF /\ Adjacent(g, g.nodes[i], g.nodes[j])
             /\ Adjacent(g, g.nodes[i], g.nodes[k])
          THEN << <<g.nodes[i], g.nodes[j], g.nodes[k]>> >> ELSE <<>>)
         \o Cliques3Open(g, i, j, k + 1)

\* the cliques of size 3 that nx.enumerate_all_cliques(G) yields, each listed
\* in node order, the list in the order of the positions of its nodes
RECURSIVE Cliques3(_, _, _, _)
Cliques3(g, i, j, k) ==
    IF i + 2 > Len(g.nodes) THEN <<>>
    ELSE IF j + 1 > Len(g.nodes) THEN Cliques3(g, i + 1, i + 2, i + 3)
    ELSE IF k > Len(g.nodes) THEN Cliques3(g, i, j + 1, j + 2)
    ELSE (IF /\ Adjacent(g, g.nodes[i], g.nodes[j])
             /\ Adjacent(g, g.nodes[i], g.nodes[k])
             /\ Adjacent(g, g.nodes[j], g.nodes[k])
          THEN << <<g.nodes[i], g.nodes[j], g.nodes[k]>> >> ELSE <<>>)
         \o Cliques3(g, i, j, k + 1)

\* [tuple(sorted(clique)) for clique in ... if len(clique) == 3]
RECURSIVE SortCliques(_)
SortCliques(cs) ==
    IF cs = <<>> THEN <<>>
    ELSE <<SortedInts(Head(cs))>> \o SortCliques(Tail(cs))

Triangles(g) == SortCliques(Cliques3(g, 1, 2, 3))

\* B2[j, t_idx] = x unless j is None
SetIfFound(B, j, t_idx, x) == IF j # None THEN SetItem(B, j, t_idx, x) ELSE B

\* variant: edge (v1, v3) entered with the sign of the other two
B2ColumnSameSign(B, edge_to_idx, tri, t_idx) ==
    LET j1 == Get(edge_to_idx, <<tri[1], tri[2]>>)
        j2 == Get(edge_to_idx, <<tri[2], tri[3]>>)
        j3 == Get(edge_to_idx, <<tri[1], tri[3]>>)
    IN  SetIfFound(SetIfFound(SetIfFound(B, j1, t_idx, 1), j2, t_idx, 1), j3, t_idx, 1)

\* one pass of the B2 loop: column t_idx of triangle tri = (v1, v2, v3)
B2Column(B, edge_to_idx, tri, t_idx) ==
    LET e1 == <<tri[1], tri[2]>>
        e2 == <<tri[2], tri[3]>>
        e3 == <<tri[1], tri[3]>>
        j1 == Get(edge_to_idx, e1)
        j2 == Get(edge_to_idx, e2)
        j3 == Get(edge_to_idx, e3)
    IN  SetIfFound(SetIfFound(SetIfFound(B, j1, t_idx, 1), j2, t_idx, 1), j3, t_idx, -1)

RECURSIVE FillB2(_, _, _, _)
FillB2(B, edge_to_idx, triangles, t_idx) ==
    IF t_idx >= Len(triangles) THEN B
    ELSE FillB2(B2Column(B, edge_to_idx, triangles[t_idx + 1], t_idx),
                edge_to_idx, triangles, t_idx + 1)

NoMatrix == Zeros(0, 0)

\* compute_incidence_matrices_B(G, k_max): what it returns or raises, with
\* the edge and triangle numbering it used
compute_incidence_matrices_B(g, k_max) ==
    IF k_max < 1 \/ k_max > 2
    THEN [status |-> "ValueError", edge_list |-> <<>>, triangles |-> <<>>,
          B1 |-> NoMatrix, B2 |-> NoMatrix]
    ELSE LET N == NumberOfNodes(g)
             edge_list == IncEdgeList(g)
             M == Len(edge_list)
             edge_to_idx == EdgeToIdx(edge_list)
             triangles == Triangles(g)
             T == Len(triangles)
         IN  IF B1IndexError(edge_list, N)
             THEN [status |-> "IndexError", edge_list |-> <<>>, triangles |-> <<>>,
                   B1 |-> NoMatrix, B2 |-> NoMatrix]
             ELSE [status |-> "returned", edge_list |-> edge_list, triangles |-> triangles,
                   B1 |-> FillB1(Zeros(N, M), edge_list, 0),
                   B2 |-> IF T > 0 THEN FillB2(Zeros(M, T), edge_to_idx, triangles, 0)
                          ELSE Zeros(M, 0)]

\* variant: the curl term subtracted
HodgeLaplacianMinus(B1, B2) ==
    LET down == MatMul(Transpose(B1), B1)
        up == MatMul(B2, Transpose(B2))
    IN  [shape |-> down.shape,
         a |-> [i \in 0..(down.shape[1] - 1) |->
                  [j \in 0..(down.shape[2] - 1) |-> down.a[i][j] - up.a[i][j]]]]

\* L1 = B1.T @ B1 + B2 @ B2.T
HodgeLaplacian(B1, B2) == MatAdd(MatMul(Transpose(B1), B1), MatMul(B2, Transpose(B2)))

----------------------------------------------------------------------------
(* edge_flow.py *)

\* the edge numbering of get_edge_flow
FlowEdgeList(g) == SortedTuples(NormalizeEdges(Edges(g)))

\* variant: the entry overwritten instead of accumulated
AccumulateOverwrite(f, edge_idx, forward) ==
    [f EXCEPT ![edge_idx] = IF forward THEN 1 ELSE -1]

\* f[edge_idx] += 1 in the reference orientation, f[edge_idx] -= 1 against it
Accumulate(f, edge_idx, forward) ==
    [f EXCEPT ![edge_idx] = IF forward THEN @ + 1 ELSE @ - 1]

\* variant: the message carries the normalized pair
EdgeNotInGraphSorted(u, v) ==
    [status |-> "ValueError",
     msg |-> <<"does not exist in the graph G", SortedInts(<<u, v>>)[1], SortedInts(<<u, v>>)[2]>>,
     f |-> <<>>]

\* the exception of an unknown edge: its message carries u and v as given
EdgeNotInGraph(u, v) ==
    [status |-> "ValueError", msg |-> <<"does not exist in the graph G", u, v>>,
     f |-> <<>>]

\* variant: the vector returned inside the loop, after the first traversal
FlowLoopFirstOnly(f, edge_to_idx, ts) ==
    IF ts = <<>>
    THEN [status |-> "returned", msg |-> <<>>, f |-> f]
    ELSE LET u == Head(ts)[1]
             v == Head(ts)[2]
             edge == SortedInts(<<u, v>>)
             edge_idx == Get(edge_to_idx, edge)
         IN  IF Len(Head(ts)) # 2 \/ edge_idx = None
             THEN [status |-> "ValueError", msg |-> <<"invalid", Head(ts)>>, f |-> <<>>]
             ELSE [status |-> "returned", msg |-> <<>>,
                   f |-> [f EXCEPT ![edge_idx] = IF <<u, v>> = edge THEN @ + 1 ELSE @ - 1]]

\* the loop over the traversals, with the vector accumulated so far
RECURSIVE FlowLoop(_, _, _)
FlowLoop(f, edge_to_idx, ts) ==
    IF ts = <<>>
    THEN [status |-> "returned", msg |-> <<>>, f |-> f]
    ELSE LET traversal == Head(ts)
         IN  IF Len(traversal) # 2
             THEN [status |-> "ValueError",
                   msg |-> <<"must be a tuple of two nodes", traversal>>, f |-> <<>>]
             ELSE LET u == traversal[1]
                      v == traversal[2]
                      edge == SortedInts(<<u, v>>)
                      edge_idx == Get(edge_to_idx, edge)
                  IN  IF edge_idx = None
                      THEN EdgeNotInGraph(u, v)
                      ELSE FlowLoop(Accumulate(f, edge_idx, <<u, v>> = edge),
                                    edge_to_idx, Tail(ts))

\* get_edge_flow(G, traversed_edge_list): the vector returned or the error
\* raised
get_edge_flow(g, ts) ==
    LET edge_list == FlowEdgeList(g)
        M == Len(edge_list)
        edge_to_idx == EdgeToIdx(edge_list)
    IN  FlowLoop([j \in 0..(M - 1) |-> 0], edge_to_idx, ts)

----------------------------------------------------------------------------
(* The state machine: a graph is built, then the functions are called on it. *)

\* the labels base..base+N-1 in ascending or descending insertion order
NodeOrder(N, base, ascending) ==
    [i \in 1..N |-> IF ascending THEN base + i - 1 ELSE base + N - i]

Graphs(maxN) ==
    {[nodes |-> NodeOrder(N, base, asc), adj |-> {}] :
        N \in 1..maxN, base \in Bases, asc \in BOOLEAN}

NotCalled == [status |-> "none"]

NothingCalled == inc = NotCalled /\ flow = NotCalled /\ hodge = NotCalled

InitWith(maxN) ==
    /\ G \in Graphs(maxN)
    /\ traversed_edge_list = <<>>
    /\ inc = NotCalled
    /\ flow = NotCalled
    /\ hodge = NotCalled

\* G.add_edge(u, v) on nodes of G; an edge already present is not added twice
add_edge(maxEdges) ==
    /\ NothingCalled
    /\ Cardinality(G.adj) < maxEdges
    /\ \E u \in NodeSet(G), v \in NodeSet(G) :
          /\ {u, v} \notin G.adj
          /\ G' = [G EXCEPT !.adj = @ \cup {{u, v}}]
    /\ UNCHANGED <<traversed_edge_list, inc, flow, hodge>>

\* B1, B2 = compute_incidence_matrices_B(G, k_max)
CallIncidence ==
    /\ inc = NotCalled
    /\ \E k_max \in KMaxValues : inc' = compute_incidence_matrices_B(G, k_max)
    /\ UNCHANGED <<G, traversed_edge_list, flow, hodge>>

\* compute_hodge_laplacian_decomp(B1, B2) on the matrices returned
CallHodge ==
    /\ inc.status = "returned"
    /\ hodge = NotCalled
    /\ hodge' = [status |-> "returned", L1 |-> HodgeLaplacian(inc.B1, inc.B2)]
    /\ UNCHANGED <<G, traversed_edge_list, inc, flow>>

\* the traversals tried: every ordered pair of nodes of G (edge or not, either
\* direction), a pair that leaves G, and an entry that is not a pair
Traversals(g) ==
    (NodeSet(g) \X NodeSet(g))
        \cup {<<g.nodes[1], Len(g.nodes) + 1>>}
        \cup {<<g.nodes[1]>>}

TraversalLists(g, maxLen) ==
    UNION {[1..n -> Traversals(g)] : n \in 0..maxLen}

\* f = get_edge_flow(G, traversed_edge_list)
CallFlow ==
    /\ flow = NotCalled
    /\ \E ts \in TraversalLists(G, MaxTrav) :
          /\ traversed_edge_list' = ts
          /\ flow' = get_edge_flow(G, ts)
    /\ UNCHANGED <<G, inc, hodge>>

Init == InitWith(MaxN)
AddEdge == add_edge(MaxEdges)
Next == AddEdge \/ CallIncidence
Spec == Init /\ [][Next]_vars

HodgeInit == InitWith(HodgeMaxN)
HodgeAddEdge == add_edge(HodgeMaxEdges)
HodgeNext == HodgeAddEdge \/ CallIncidence \/ CallHodge
SpecHodge == HodgeInit /\ [][HodgeNext]_vars

FlowInit == InitWith(FlowMaxN)
FlowAddEdge == add_edge(FlowMaxEdges)
FlowNext == FlowAddEdge \/ CallFlow
SpecFlow == FlowInit /\ [][FlowNext]_vars

\* both functions called on the same graph
WalkNext == FlowAddEdge \/ CallFlow \/ CallIncidence
SpecWalk == FlowInit /\ [][WalkNext]_vars

----------------------------------------------------------------------------
(* Vocabulary of the properties. *)

\* no self-loop
IsSimple(g) == \A e \in g.adj : Cardinality(e) = 2

\* the sets of three pairwise joined vertices
CliqueSets(g) ==
    {S \in SUBSET NodeSet(g) :
        Cardinality(S) = 3 /\ \A u \in S, v \in S : u # v => {u, v} \in g.adj}

\* the row of vertex v when rows follow the label order
LabelRow(g, v) == Cardinality({w \in NodeSet(g) : w < v})

\* sum of the entries h[0], ..., h[n-1]
RECURSIVE SumFn(_, _)
SumFn(h, n) == IF n = 0 THEN 0 ELSE SumFn(h, n - 1) + h[n - 1]

\* (A x)[i] for a vector x over the columns of A
MatVec(A, x, i) == SumFn([j \in 0..(A.shape[2] - 1) |-> A.a[i][j] * x[j]], A.shape[2])

\* how many entries of the list ts equal t
Count(ts, t) == Cardinality({k \in 1..Len(ts) : ts[k] = t})

\* the traversal t is a pair whose ends are joined in g
IsEdgeOf(g, t) == Len(t) = 2 /\ {t[1], t[2]} \in g.adj

IsPairList(ts) == \A k \in 1..Len(ts) : Len(ts[k]) = 2

----------------------------------------------------------------------------
(* C1: boundary of boundary.  For a simple graph with at least one 3-clique *)
(* the returned matrices satisfy B1 . B2 = 0: for every vertex row i and    *)
(* every triangle column t the sum over the edges j of B1[i,j] * B2[j,t]    *)
(* is 0, B1 being N x M and B2 being M x T.                                 *)
BoundaryOfBoundary ==
    (inc.status = "returned" /\ IsSimple(G) /\ CliqueSets(G) # {}) =>
        LET N == Len(G.nodes)
            M == Cardinality(G.adj)
            T == Cardinality(CliqueSets(G))
        IN  /\ inc.B1.shape = <<N, M>>
            /\ inc.B2.shape = <<M, T>>
            /\ \A i \in 0..(N - 1), t \in 0..(T - 1) : DotRC(inc.B1, inc.B2, i, t, M) = 0

BoundaryOfBoundaryWitness ==
    /\ inc.status = "returned"
    /\ IsSimple(G)
    /\ Cardinality(CliqueSets(G)) >= 2
    /\ Cardinality(G.adj) = 5
    /\ inc.B2.shape[2] >= 2

(* C2: orientation of B1 by label order.  Column j of edge (a,b), a < b,    *)
(* has -1 at the row of a, +1 at the row of b and 0 elsewhere, the vertex   *)
(* with the k-th smallest label occupying row k, for 1-based and 0-based    *)
(* labels alike.                                                            *)
OrientationByLabelOrder ==
    inc.status = "returned" =>
        \A j \in 0..(Len(inc.edge_list) - 1) :
            LET a == inc.edge_list[j + 1][1]
                b == inc.edge_list[j + 1][2]
            IN  a < b =>
                  \A i \in 0..(Len(G.nodes) - 1) :
                      inc.B1.a[i][j] = IF i = LabelRow(G, a) THEN -1
                                       ELSE IF i = LabelRow(G, b) THEN 1
                                       ELSE 0

(* C3: B2 has shape M x T with T the number of 3-cliques (M x 0 when there  *)
(* are none); every column belongs to a triangle v1 < v2 < v3 whose three   *)
(* pairs are edges, and holds +1 at edge (v1,v2), +1 at edge (v2,v3), -1 at *)
(* edge (v1,v3) and 0 at every other edge: exactly three nonzero entries.   *)
TriangleColumns ==
    inc.status = "returned" =>
        LET M == Len(inc.edge_list)
            T == Cardinality(CliqueSets(G))
        IN  /\ inc.B2.shape = <<M, T>>
            /\ Len(inc.triangles) = T
            /\ \A t \in 0..(T - 1) :
                 LET v1 == inc.triangles[t + 1][1]
                     v2 == inc.triangles[t + 1][2]
                     v3 == inc.triangles[t + 1][3]
                 IN  /\ v1 < v2 /\ v2 < v3
                     /\ {v1, v2} \in G.adj /\ {v2, v3} \in G.adj /\ {v1, v3} \in G.adj
                     /\ \A j \in 0..(M - 1) :
                          inc.B2.a[j][t] =
                              IF inc.edge_list[j + 1] \in {<<v1, v2>>, <<v2, v3>>} THEN 1
                              ELSE IF inc.edge_list[j + 1] = <<v1, v3>> THEN -1
                              ELSE 0
                     /\ Cardinality({j \in 0..(M - 1) : inc.B2.a[j][t] # 0}) = 3

TriangleColumnsWitness ==
    /\ inc.status = "returned"
    /\ inc.B2.shape[2] >= 1
    /\ Len(inc.edge_list) >= 4
    /\ inc.triangles # SortedTuples(inc.triangles)

\* no 3-clique: B2 is M x 0 and the call still returns
NoTriangleWitness ==
    /\ inc.status = "returned"
    /\ Len(inc.edge_list) >= 3
    /\ inc.B2.shape = <<Len(inc.edge_list), 0>>

(* C4: the edge list holds every undirected edge of G exactly once, as      *)
(* (min,max), in strictly ascending order; its length is the number of      *)
(* edges; the edge-to-index map is a bijection onto 0..M-1; and             *)
(* get_edge_flow numbers the edges of the same G identically.               *)
EdgeBijection ==
    inc.status = "returned" =>
        LET el == inc.edge_list
            M == Len(el)
            idx == EdgeToIdx(el)
        IN  /\ M = Cardinality(G.adj)
            /\ \A k \in 1..M : el[k][1] <= el[k][2] /\ {el[k][1], el[k][2]} \in G.adj
            /\ \A k \in 1..(M - 1) : TupleLess(el[k], el[k + 1])
            /\ \A e \in G.adj : Cardinality({k \in 1..M : {el[k][1], el[k][2]} = e}) = 1
            /\ \A k \in 1..M : idx[el[k]] = k - 1
            /\ {idx[e] : e \in DOMAIN idx} = 0..(M - 1)
            /\ Cardinality(DOMAIN idx) = M
            /\ DOMAIN EdgeToIdx(FlowEdgeList(G)) = DOMAIN idx
            /\ \A e \in DOMAIN idx : EdgeToIdx(FlowEdgeList(G))[e] = idx[e]

EdgeBijectionWitness ==
    /\ inc.status = "returned"
    /\ Len(inc.edge_list) >= 4
    /\ NormalizeEdges(Edges(G)) # inc.edge_list
    /\ Edges(G) # NormalizeEdges(Edges(G))

FirstUnknown(g, ts) ==
    IF \A k \in 1..Len(ts) : IsEdgeOf(g, ts[k]) THEN 0
    ELSE CHOOSE k \in 1..Len(ts) :
            /\ ~IsEdgeOf(g, ts[k])
            /\ \A m \in 1..(k - 1) : IsEdgeOf(g, ts[m])

(* C7: a list of pairs with a pair (u,v) that is no edge of G makes         *)
(* get_edge_flow fail with an error naming u and v of the first such pair   *)
(* as given; no vector is returned, however many valid traversals come      *)
(* first, and G is left as it was.                                          *)
UnknownEdgeRejected ==
    [][(flow.status = "none" /\ flow'.status # "none"
          /\ IsPairList(traversed_edge_list')
          /\ FirstUnknown(G, traversed_edge_list') > 0) =>
            LET t == traversed_edge_list'[FirstUnknown(G, traversed_edge_list')]
            IN  /\ flow'.status = "ValueError"
                /\ flow'.msg = <<"does not exist in the graph G", t[1], t[2]>>
                /\ flow'.f = <<>>
                /\ G' = G]_vars

UnknownEdgeRejectedWitness ==
    /\ flow.status = "ValueError"
    /\ IsPairList(traversed_edge_list)
    /\ FirstUnknown(G, traversed_edge_list) = 3
    /\ flow.msg[2] > flow.msg[3]

(* C8: a graph with an edge whose two endpoints are equal is rejected:      *)
(* neither function returns a result for it.                                *)
SelfLoopRejected ==
    (\E e \in G.adj : Cardinality(e) = 1) =>
        inc.status # "returned" /\ flow.status # "returned"

(* C9: L1 = B1^T B1 + B2 B2^T is M x M, symmetric, and for every integer    *)
(* vector x, x^T L1 x = |B1 x|^2 + |B2^T x|^2 >= 0.                         *)
LaplacianSymmetricPSD ==
    hodge.status = "returned" =>
        LET L == hodge.L1
            M == Len(inc.edge_list)
            B2T == Transpose(inc.B2)
        IN  /\ L.shape = <<M, M>>
            /\ \A i \in 0..(M - 1), j \in 0..(M - 1) : L.a[i][j] = L.a[j][i]
            /\ \A x \in [0..(M - 1) -> (-XMax)..XMax] :
                 LET q == SumFn([i \in 0..(M - 1) |-> x[i] * MatVec(L, x, i)], M)
                     g1 == SumFn([i \in 0..(inc.B1.shape[1] - 1) |->
                                    MatVec(inc.B1, x, i) * MatVec(inc.B1, x, i)],
                                 inc.B1.shape[1])
                     g2 == SumFn([t \in 0..(B2T.shape[1] - 1) |->
                                    MatVec(B2T, x, t) * MatVec(B2T, x, t)],
                                 B2T.shape[1])
                 IN  q >= 0 /\ q = g1 + g2

LaplacianWitness ==
    /\ hodge.status = "returned"
    /\ inc.B2.shape = <<3, 1>>
    /\ hodge.L1.a[0][0] = 3

\* ts is a directed walk over edges of g: consecutive pairs chain
IsWalk(g, ts) ==
    /\ \A k \in 1..Len(ts) : IsEdgeOf(g, ts[k])
    /\ \A k \in 1..(Len(ts) - 1) : ts[k][2] = ts[k + 1][1]

(* C10: for a simple graph and a directed walk x0 -> ... -> xk over its     *)
(* edges, B1 . f has +1 at the row of xk, -1 at the row of x0 and 0         *)
(* elsewhere (all 0 when the walk is closed), rows following the label      *)
(* order.                                                                   *)
WalkBoundary ==
    (inc.status = "returned" /\ flow.status = "returned" /\ IsSimple(G)
        /\ Len(traversed_edge_list) >= 1 /\ IsWalk(G, traversed_edge_list)) =>
        LET x0 == traversed_edge_list[1][1]
            xk == traversed_edge_list[Len(traversed_edge_list)][2]
        IN  \A i \in 0..(Len(G.nodes) - 1) :
                MatVec(inc.B1, flow.f, i) =
                    (IF i = LabelRow(G, xk) THEN 1 ELSE 0)
                        - (IF i = LabelRow(G, x0) THEN 1 ELSE 0)

====
